---- MODULE Spec2Model ----
(***************************************************************************)
(* metyping: the round state machine of src/main.rs (struct App), the      *)
(* session loop App::run that drives it from main, and the unit test       *)
(* tests::handle_key_event that drives App::handle_key_event directly.     *)
(*                                                                         *)
(* A string is a sequence of one-character strings: "ab" is <<"a", "b">>.  *)
(***************************************************************************)
EXTENDS Integers, Sequences, FiniteSets, TLC

VARIABLES
    wins,             \* App.wins: u8
    fails,            \* App.fails: u8
    remainder,        \* App.remainder.span.content
    spans,            \* App.spans: Vec<TextSpan>
    exit,             \* App.exit
    miss_this_round,  \* App.miss_this_round
    pc,               \* position of main / App::run, or of the unit test
    restores,         \* number of calls of tui::restore made by main
    last,             \* history: the last operation performed and its input event
    completed,        \* history: number of round completions handled so far
    missed,           \* history: a mismatching character was submitted since the
                      \*          last call of next_round
    target,           \* history: the string the current round started with
    hits              \* history: number of hits since the current round started

app == <<wins, fails, remainder, spans, exit, miss_this_round>>
vars == <<wins, fails, remainder, spans, exit, miss_this_round,
          pc, restores, last, completed, missed, target, hits>>

-----------------------------------------------------------------------------
(* Bounds of the model.                                                    *)

\* rounds completed in one explored session of Spec
MaxRounds == 3
\* the random index drawn by next_round ranges over 0 .. MaxDraw-1 in Spec
MaxDraw == 2
\* longest remainder the unit test writes into the application
MaxLen == 3
\* rounds completed in one explored session of SpecLong (beyond the u8 range)
LongRounds == 257

\* u8: the counters have 2^8 values
U8 == 256

-----------------------------------------------------------------------------
(* Tables and input events.                                                *)

ALPHABET ==
    << "a", "b", "c", "d", "e", "f", "g", "h", "i", "j", "k", "l", "m",
       "n", "o", "p", "q", "r", "s", "t", "u", "v", "w", "x", "y", "z" >>

DIGITS == << "0", "1", "2", "3", "4", "5", "6", "7", "8", "9" >>

\* the last entry is the grave accent, which cannot be written in a string
\* of this language, so it is written by its name
SPECIALS ==
    << "!", "@", "#", "$", "%", "^", "&", "*", "(", ")", "-", "_", "+", "=",
       "{", "}", "[", "]", "|", "\\", ":", ";", "\"", "\"", "<", ">", ",",
       ".", "/", "?", "GRAVE" >>

\* rng.gen_range(0..ALPHABET.len()): every index of the table
FullRange == 0 .. (Len(ALPHABET) - 1)
\* the draws explored by Spec
RngRange == { i \in FullRange : i < MaxDraw }

\* characters a key event can carry: target letters, a letter that is never a
\* target within RngRange, an upper-case letter, a digit
KeyChars == { "a", "b", "c", "z", "A", "1" }

KeyEventKinds == { "Press", "Release", "Repeat" }

KeyEvt(code, ch, kind) == [type |-> "Key", code |-> code, ch |-> ch, kind |-> kind]

NoEvent == [type |-> "None", code |-> "None", ch |-> "", kind |-> "None"]

\* the values of crossterm's Event that event::read() can return
KeyEvents(chars) ==
    { KeyEvt("Char", c, k) : c \in chars, k \in KeyEventKinds }
    \cup { KeyEvt("Esc", "", k) : k \in KeyEventKinds }
    \cup { KeyEvt("Enter", "", k) : k \in KeyEventKinds }

Events(chars) ==
    KeyEvents(chars)
    \cup { [type |-> "Resize", code |-> "None", ch |-> "", kind |-> "None"] }

\* KeyCode::X.into(): the key events the unit test builds, all of kind Press
TestKeyEvents == { e \in KeyEvents(KeyChars) : e.kind = "Press" }

\* the strings the unit test assigns to remainder
TestStrings == UNION { [1..n -> {"a", "b"}] : n \in 1..MaxLen }

-----------------------------------------------------------------------------
(* Pure helpers.                                                           *)

\* str::starts_with(char)
starts_with(s, v) == Len(s) > 0 /\ s[1] = v

\* index of the first occurrence of v in s, 0 if none
first_index(s, v) ==
    IF \E i \in 1..Len(s) : s[i] = v
    THEN CHOOSE i \in 1..Len(s) : s[i] = v /\ \A j \in 1..(i-1) : s[j] # v
    ELSE 0

\* faulty variant of replacen: str::replace, every occurrence of v removed
replacen_all(s, v) == SelectSeq(s, LAMBDA x : x # v)

\* str::replacen(v, "", 1): s with the first occurrence of v removed
replacen(s, v) ==
    LET i == first_index(s, v)
    IN  IF i = 0 THEN s
        ELSE SubSeq(s, 1, i - 1) \o SubSeq(s, i + 1, Len(s))

\* TextSpan::hit
TextSpan_hit(value) == [span_type |-> "HIT", content |-> value]

-----------------------------------------------------------------------------
(* Methods of App.                                                         *)

\* `x += 1` on a u8 at its maximum overflows: a build with overflow checks
\* (debug) panics, a build without (release) wraps to 0
add1_outcomes(x) == IF x + 1 < U8 THEN {"ok"} ELSE {"wrap", "panic"}

\* faulty variant of count: the two branches swapped
count_swapped(fail) ==
    /\ fails' = IF fail THEN fails ELSE (fails + 1) % U8
    /\ wins' = IF fail THEN (wins + 1) % U8 ELSE wins

\* faulty variant of count: a failed round is counted as a win as well
count_both(fail) ==
    /\ fails' = IF fail THEN (fails + 1) % U8 ELSE fails
    /\ wins' = (wins + 1) % U8

\* App::count
count(fail) ==
    /\ fails' = IF fail THEN (fails + 1) % U8 ELSE fails
    /\ wins' = IF fail THEN wins ELSE (wins + 1) % U8

\* faulty variant of next_round: spans.clear() left out
next_round_keeps_spans(range) ==
    \E i \in range, j \in range :
        /\ spans' = spans
        /\ remainder' = <<ALPHABET[i + 1]>> \o <<ALPHABET[j + 1]>>
        /\ miss_this_round' = FALSE

\* faulty variant of next_round: a.push_str(&b) left out
next_round_no_push(range) ==
    \E i \in range, j \in range :
        /\ spans' = <<>>
        /\ remainder' = <<ALPHABET[i + 1]>>
        /\ miss_this_round' = FALSE

\* App::next_round, the two indices drawn from range
next_round(range) ==
    \E i \in range, j \in range :
        LET a == <<ALPHABET[i + 1]>>
            b == <<ALPHABET[j + 1]>>
        IN  /\ spans' = <<>>
            /\ remainder' = a \o b
            /\ miss_this_round' = FALSE

\* faulty variant of App::exit: the flag is toggled
App_exit_toggle == exit' = ~exit

\* App::exit
App_exit == exit' = TRUE

\* App::exit_error
exit_error == exit' = TRUE

\* faulty variant of Vec::is_empty: the test is negated
Vec_is_not_empty(vec) == vec # <<>>

\* Vec::is_empty
Vec_is_empty(vec) == vec = <<>>

\* Vec::pop: the last element if there is one, and the vector that is left
Vec_pop(vec) ==
    IF vec = <<>>
    THEN [some |-> FALSE, rest |-> <<>>]
    ELSE [some |-> TRUE, value |-> vec[Len(vec)],
          rest |-> SubSeq(vec, 1, Len(vec) - 1)]

\* faulty variant of push_hit: the popped span's text is dropped
push_hit_forgets(v) ==
    /\ spans' = << TextSpan_hit(<<v>>) >>
    /\ exit' = exit

\* faulty variant of push_hit: every hit pushes a span of its own
push_hit_separate(v) ==
    /\ spans' = Append(spans, TextSpan_hit(<<v>>))
    /\ exit' = exit

\* the non-completing hit: the character joins the last span, or starts one;
\* a pop that yields None ends the session through exit_error
push_hit(v) ==
    IF Vec_is_empty(spans)
    THEN /\ spans' = << TextSpan_hit(<<v>>) >>
         /\ exit' = exit
    ELSE LET lst == Vec_pop(spans)
         IN  IF lst.some
             THEN /\ spans' = lst.rest \o << TextSpan_hit(lst.value.content \o <<v>>) >>
                  /\ exit' = exit
             ELSE /\ spans' = lst.rest
                  /\ exit_error

\* the Result of count and of next_round: both end with Ok(())
count_result == "Ok"
next_round_result == "Ok"

\* the completing hit: count the round, start the next one, return Ok;
\* exit_error is called when count or next_round returned an error
round_complete(range, ret) ==
    \E o \in add1_outcomes(IF miss_this_round THEN fails ELSE wins) :
        IF o = "panic"
        THEN /\ pc' = "panicked"
             /\ UNCHANGED app
        ELSE /\ count(miss_this_round)
             /\ next_round(range)
             /\ IF count_result # "Ok" \/ next_round_result # "Ok"
                THEN exit_error
                ELSE exit' = exit
             /\ pc' = ret

\* faulty variant of the miss branch: the miss is shown as a MISS span
miss_branch_pushes_span ==
    /\ miss_this_round' = TRUE
    /\ spans' = Append(spans, [span_type |-> "MISS", content |-> <<"?">>])
    /\ UNCHANGED <<wins, fails, remainder, exit>>

\* faulty variant of the miss branch: the flag is not set
miss_branch_no_flag == UNCHANGED app

\* faulty variant of the miss branch: the flag is toggled
miss_branch_toggles ==
    /\ miss_this_round' = ~miss_this_round
    /\ UNCHANGED <<wins, fails, remainder, spans, exit>>

\* faulty variant of the miss branch: the pending character is dropped
miss_branch_drops_char ==
    /\ miss_this_round' = TRUE
    /\ remainder' = IF remainder = <<>> THEN remainder ELSE Tail(remainder)
    /\ UNCHANGED <<wins, fails, spans, exit>>

\* the miss: the else branch of `if is_hit`
miss_branch ==
    /\ miss_this_round' = TRUE
    /\ UNCHANGED <<wins, fails, remainder, spans, exit>>

\* App::handle_key_event; ret is where the caller continues
handle_key_event(key_event, range, ret) ==
    IF key_event.code = "Esc"
    THEN /\ App_exit
         /\ UNCHANGED <<wins, fails, remainder, spans, miss_this_round>>
         /\ pc' = ret
    ELSE IF key_event.code = "Char"
    THEN LET v == key_event.ch
             is_hit == starts_with(remainder, v)
             new_remainder == replacen(remainder, v)
         IN  IF is_hit
             THEN IF new_remainder = <<>>
                  THEN round_complete(range, ret)
                  ELSE /\ push_hit(v)
                       /\ remainder' = new_remainder
                       /\ UNCHANGED <<wins, fails, miss_this_round>>
                       /\ pc' = ret
             ELSE /\ miss_branch
                  /\ pc' = ret
    ELSE /\ UNCHANGED app
         /\ pc' = ret

\* the result of event::read(): an event, or an error
ReadError == [type |-> "Err", code |-> "None", ch |-> "", kind |-> "None"]

\* faulty variant of handle_events: the kind of the key event is not tested
handle_events_any_kind(r, range) ==
    IF r.type = "Err"
    THEN /\ pc' = "exit_err_run"
         /\ UNCHANGED app
    ELSE IF r.type = "Key"
    THEN handle_key_event(r, range, "loop")
    ELSE /\ UNCHANGED app
         /\ pc' = "loop"

\* App::handle_events on the result r of event::read()
handle_events(r, range) ==
    IF r.type = "Err"
    THEN /\ pc' = "exit_err_run"
         /\ UNCHANGED app
    ELSE IF r.type = "Key" /\ r.kind = "Press"
    THEN handle_key_event(r, range, "loop")
    ELSE /\ UNCHANGED app
         /\ pc' = "loop"

\* faulty variant of the loop condition: `loop` instead of `while !self.exit`
loop_cond_always == TRUE

\* the condition of run's while loop
loop_cond == ~exit

-----------------------------------------------------------------------------
(* History.                                                                *)

\* the key event carries a character that is not the leading one of remainder
IsMiss(ke) == ke.code = "Char" /\ (remainder = <<>> \/ Head(remainder) # ke.ch)

\* the key event carries the one character that is left of the remainder
IsCompleting(ke) == ke.code = "Char" /\ remainder = <<ke.ch>>

\* the event is handed to handle_key_event by operation op
IsKeyCall(op, ev) ==
    \/ op = "handle_key_event"
    \/ op = "handle_events" /\ ev.type = "Key" /\ ev.kind = "Press"

\* the key event carries the leading character of remainder
IsHit(ke) == ke.code = "Char" /\ remainder # <<>> /\ Head(remainder) = ke.ch

\* the operation installs a round's string: next_round, or the unit test's
\* assignment to remainder
StartsRound(op) == op \in {"next_round", "set_remainder"}

\* last.done: the operation was a key event that completed a round;
\* last.hit: the operation was a key event for the leading character
Record(op, ev) ==
    /\ IF StartsRound(op)
          \/ (IsKeyCall(op, ev) /\ IsCompleting(ev) /\ pc' # "panicked")
       THEN target' = remainder' /\ hits' = 0
       ELSE /\ target' = target
            /\ hits' = IF IsKeyCall(op, ev) /\ IsHit(ev) /\ pc' # "panicked"
                       THEN hits + 1 ELSE hits
    /\ last' = [op |-> op, ev |-> ev,
                done |-> (IsKeyCall(op, ev) /\ IsCompleting(ev) /\ pc' # "panicked"),
                hit |-> (IsKeyCall(op, ev) /\ IsHit(ev))]
    /\ IF IsKeyCall(op, ev) /\ IsCompleting(ev) /\ pc' # "panicked"
       THEN /\ completed' = completed + 1
            /\ missed' = FALSE
       ELSE /\ completed' = completed
            /\ missed' = IF op = "next_round" THEN FALSE
                         ELSE (missed \/ (IsKeyCall(op, ev) /\ IsMiss(ev)))

-----------------------------------------------------------------------------
(* main and App::run.                                                      *)

\* main: tui::init()?
main_init ==
    /\ pc = "main"
    /\ \E ok \in BOOLEAN : pc' = IF ok THEN "run" ELSE "exit_err_init"
    /\ UNCHANGED <<app, restores>>
    /\ Record("tui_init", NoEvent)

\* App::run before the loop: next_round returns Ok
run_start(range) ==
    /\ pc = "run"
    /\ next_round(range)
    /\ IF next_round_result # "Ok" THEN App_exit ELSE exit' = exit
    /\ pc' = "loop"
    /\ UNCHANGED <<wins, fails, restores>>
    /\ Record("next_round", NoEvent)

\* the loop condition is false: run returns Ok(())
run_return ==
    /\ pc = "loop"
    /\ ~loop_cond
    /\ pc' = "restore"
    /\ UNCHANGED <<app, restores>>
    /\ Record("run_return", NoEvent)

\* terminal.draw(..)?: the frame is rendered, or run returns the error
run_draw ==
    /\ pc = "loop"
    /\ loop_cond
    /\ \E ok \in BOOLEAN : pc' = IF ok THEN "events" ELSE "exit_err_run"
    /\ UNCHANGED <<app, restores>>
    /\ Record("draw", NoEvent)

\* self.handle_events()?: one blocking read and its dispatch
run_handle_events(evs, range, cap) ==
    /\ pc = "events"
    /\ \E r \in evs \cup {ReadError} :
          /\ (IsKeyCall("handle_events", r) /\ IsCompleting(r)) => completed < cap
          /\ handle_events(r, range)
          /\ Record("handle_events", r)
    /\ UNCHANGED restores

\* main: tui::restore()?; Ok(())
main_restore ==
    /\ pc = "restore"
    /\ restores' = restores + 1
    /\ \E ok \in BOOLEAN : pc' = IF ok THEN "exit_ok" ELSE "exit_err_restore"
    /\ UNCHANGED app
    /\ Record("tui_restore", NoEvent)

-----------------------------------------------------------------------------
(* tests::handle_key_event.                                                *)

\* app.next_round()
test_next_round(range) ==
    /\ pc = "t_new"
    /\ next_round(range)
    /\ pc' = "t_round"
    /\ UNCHANGED <<wins, fails, exit, restores>>
    /\ Record("next_round", NoEvent)

\* app.remainder.span = Span::default().content(..)
test_set_remainder ==
    /\ pc = "t_round"
    /\ \E s \in TestStrings : remainder' = s
    /\ pc' = "t_keys"
    /\ UNCHANGED <<wins, fails, spans, exit, miss_this_round, restores>>
    /\ Record("set_remainder", NoEvent)

\* app.handle_key_event(KeyCode::X.into())
test_handle_key_event(range, cap) ==
    /\ pc \in {"t_new", "t_round", "t_keys"}
    /\ \E ke \in TestKeyEvents :
          /\ IsCompleting(ke) => completed < cap
          /\ handle_key_event(ke, range, IF pc = "t_new" THEN "t_new" ELSE "t_keys")
          /\ Record("handle_key_event", ke)
    /\ UNCHANGED restores

-----------------------------------------------------------------------------
(* Specifications.                                                         *)

\* App::default(), before main or the unit test takes its first step
Init ==
    /\ wins = 0
    /\ fails = 0
    /\ remainder = <<>>
    /\ spans = <<>>
    /\ exit = FALSE
    /\ miss_this_round = FALSE
    /\ pc \in {"main", "t_new"}
    /\ restores = 0
    /\ last = [op |-> "default", ev |-> NoEvent, done |-> FALSE, hit |-> FALSE]
    /\ completed = 0
    /\ missed = FALSE
    /\ target = <<>>
    /\ hits = 0

RunStart == run_start(RngRange)
RunHandleEvents == run_handle_events(Events(KeyChars), RngRange, MaxRounds)
TestNextRound == test_next_round(RngRange)
TestHandleKeyEvent == test_handle_key_event(RngRange, MaxRounds)

Next ==
    \/ main_init
    \/ RunStart
    \/ run_return
    \/ run_draw
    \/ RunHandleEvents
    \/ main_restore
    \/ TestNextRound
    \/ test_set_remainder
    \/ TestHandleKeyEvent

Spec == Init /\ [][Next]_vars

\* The player presses the key of the pending character: the step of
\* RunHandleEvents that reads this key event.
PlayerHits ==
    /\ pc = "events"
    /\ remainder # <<>>
    /\ LET r == KeyEvt("Char", Head(remainder), "Press")
       IN  /\ r \in Events(KeyChars)
           /\ IsCompleting(r) => completed < MaxRounds
           /\ handle_events(r, RngRange)
           /\ Record("handle_events", r)
    /\ UNCHANGED restores

\* Spec with a program that keeps running while it can take a step and a
\* player who keeps pressing the pending character.
SpecLive == Spec /\ WF_vars(Next) /\ SF_vars(PlayerHits)

\* Every draw of next_round, from main and from the unit test.
GenRunStart == run_start(FullRange)
GenTestNextRound == test_next_round(FullRange)

GenNext ==
    \/ main_init
    \/ GenRunStart
    \/ GenTestNextRound

SpecGen == Init /\ [][GenNext]_vars

\* A long session of main: one target, the keys that hit, miss and quit.
LongRange == {0}
LongEvents == { KeyEvt("Char", "a", "Press"), KeyEvt("Char", "z", "Press"),
                KeyEvt("Esc", "", "Press") }
LongRunStart == run_start(LongRange)
LongRunHandleEvents == run_handle_events(LongEvents, LongRange, LongRounds)

LongInit == Init /\ pc = "main"

LongNext ==
    \/ main_init
    \/ LongRunStart
    \/ run_return
    \/ run_draw
    \/ LongRunHandleEvents
    \/ main_restore

SpecLong == LongInit /\ [][LongNext]_vars

-----------------------------------------------------------------------------
(* Properties.                                                             *)

\* the step hands a key event carrying character c to handle_key_event
CharStep(c) ==
    /\ IsKeyCall(last'.op, last'.ev)
    /\ last'.ev.code = "Char"
    /\ last'.ev.ch = c

\* the step hands an Escape key event to handle_key_event
EscStep ==
    /\ IsKeyCall(last'.op, last'.ev)
    /\ last'.ev.code = "Esc"

\* the last operation handed a key event to handle_key_event
KeyCalled == IsKeyCall(last.op, last.ev)

LowercaseLetters ==
    { "a", "b", "c", "d", "e", "f", "g", "h", "i", "j", "k", "l", "m",
      "n", "o", "p", "q", "r", "s", "t", "u", "v", "w", "x", "y", "z" }

\* C1: a key event for c handled while remainder is exactly c counts one
\* outcome: with miss_this_round false wins goes up by 1 and fails is
\* unchanged, with miss_this_round true fails goes up by 1 and wins is unchanged.
C1_CountsOneOutcome ==
    [][ \A c \in KeyChars :
          (CharStep(c) /\ remainder = <<c>>) =>
              IF miss_this_round
              THEN fails' = fails + 1 /\ wins' = wins
              ELSE wins' = wins + 1 /\ fails' = fails ]_vars

\* C1 witness: a completion has just been handled, and one round was counted
\* as a win and one as a fail.
C1_Witness ==
    last.done /\ completed = 2 /\ wins = 1 /\ fails = 1

\* C2: a key event for a character that is not the first of remainder leaves
\* remainder, spans, wins, fails and exit unchanged and miss_this_round true.
C2_MissOnlySetsFlag ==
    [][ \A c \in KeyChars :
          (CharStep(c) /\ ~(remainder # <<>> /\ Head(remainder) = c)) =>
              /\ UNCHANGED <<remainder, spans, wins, fails, exit>>
              /\ miss_this_round' ]_vars

\* C2 witness: a wrong character has just been handled in the middle of a
\* round, after a hit.
C2_Witness ==
    /\ KeyCalled /\ last.ev.code = "Char"
    /\ Len(remainder) = 1 /\ last.ev.ch # remainder[1]
    /\ spans # <<>>
    /\ miss_this_round

\* C3: a key event for the first character of a remainder of length at least
\* 2 removes exactly that first character and leaves miss_this_round unchanged.
C3_HitAdvancesByOne ==
    [][ \A c \in KeyChars :
          (CharStep(c) /\ Len(remainder) >= 2 /\ remainder[1] = c) =>
              /\ remainder' = Tail(remainder)
              /\ miss_this_round' = miss_this_round ]_vars

\* C3 witness: "a" has just been typed on a remainder "aa": "a" is left.
C3_Witness ==
    /\ KeyCalled /\ last.ev.code = "Char" /\ last.ev.ch = "a"
    /\ ~last.done
    /\ remainder = <<"a">>
    /\ spans = << TextSpan_hit(<<"a">>) >>

\* C4: the step that handles the completing key event leaves a fresh round:
\* a remainder of 2 characters, no spans, miss_this_round false.
C4_FreshRoundAfterCompletion ==
    [][ \A c \in KeyChars :
          (CharStep(c) /\ remainder = <<c>>) =>
              /\ Len(remainder') = 2
              /\ spans' = <<>>
              /\ ~miss_this_round' ]_vars

\* C4 witness: a round with a miss has just been completed in the session loop.
C4_Witness ==
    /\ last.done /\ last.op = "handle_events"
    /\ fails = 1
    /\ Len(remainder) = 2 /\ spans = <<>> /\ ~miss_this_round

\* C5: every target next_round produces has length 2 and both characters are
\* lowercase letters a-z.
C5_TargetTwoLowercase ==
    last.op = "next_round" =>
        /\ Len(remainder) = 2
        /\ \A i \in 1..Len(remainder) : remainder[i] \in LowercaseLetters

\* C5 witness: next_round has drawn the last letter and another one.
C5_Witness ==
    last.op = "next_round" /\ remainder = <<"z", "q">>

\* C6: a pressed Escape sets exit, and once exit is true the session loop
\* neither renders nor reads input again.
C6_EscapeStopsLoop ==
    [][ /\ EscStep => exit'
        /\ exit => last'.op \notin {"draw", "handle_events"} ]_vars

\* C6 witness: Escape was pressed in the middle of a round of the session loop,
\* and run has returned.
C6_Witness ==
    /\ exit /\ pc = "restore" /\ last.op = "run_return"
    /\ spans # <<>>

\* C7: a round completion counts a win exactly when no mismatching character
\* was submitted since the round started, and a fail otherwise.
C7_WinIffCleanRound ==
    [][ \A c \in KeyChars :
          (CharStep(c) /\ remainder = <<c>>) =>
              /\ (wins' = wins + 1 /\ fails' = fails) <=> ~missed
              /\ (fails' = fails + 1 /\ wins' = wins) <=> missed ]_vars

\* C7 witness: three rounds completed in the session loop, two of them with a
\* miss and one clean.
C7_Witness ==
    /\ last.done /\ last.op = "handle_events"
    /\ completed = 3 /\ wins = 1 /\ fails = 2

\* C8: wins and fails never go down, and a round completion adds exactly one
\* to their sum, over any number of completed rounds.
C8_CountersMonotone ==
    [][ /\ wins' >= wins
        /\ fails' >= fails
        /\ \A c \in KeyChars :
              (CharStep(c) /\ remainder = <<c>>) =>
                  wins' + fails' = wins + fails + 1 ]_vars

\* C9: once the terminal was initialised, main has called tui::restore exactly
\* once when the process ends, on every exit path.
C9_RestoreOnEveryExit ==
    pc \in {"exit_ok", "exit_err_run", "exit_err_restore", "panicked"} =>
        restores = 1

\* C10: once exit is true it stays true.
C10_ExitNeverUnset ==
    [][ exit => exit' ]_vars

\* C10 witness: a round was completed by a key event handled after exit was set.
C10_Witness ==
    exit /\ last.done /\ completed >= 1

\* the texts of the spans, concatenated in order
RECURSIVE SpansText(_)
SpansText(sp) ==
    IF sp = <<>> THEN <<>> ELSE Head(sp).content \o SpansText(Tail(sp))

\* s is a suffix of t
IsSuffix(s, t) ==
    /\ Len(s) <= Len(t)
    /\ s = SubSeq(t, Len(t) - Len(s) + 1, Len(t))

\* C11: in every state after the first next_round, the texts of the spans
\* followed by remainder are the string the current round started with, so
\* remainder is a suffix of it.
C11_SpansThenRemainderIsTarget ==
    pc \notin {"main", "run", "t_new", "exit_err_init"} =>
        /\ SpansText(spans) \o remainder = target
        /\ IsSuffix(remainder, target)

\* C11 witness: two hits into a three-character round.
C11_Witness ==
    /\ target = <<"a", "b", "a">>
    /\ SpansText(spans) = <<"a", "b">>
    /\ remainder = <<"a">>

\* C12: miss_this_round goes from true to false only in a step that calls
\* next_round; a miss, a hit that does not complete the round, Escape and
\* ignored events do not clear it.
C12_FlagClearedOnlyByNextRound ==
    [][ (miss_this_round /\ ~miss_this_round') =>
            (last'.op = "next_round" \/ last'.done) ]_vars

\* C12 witness: a hit that does not complete the round has just been handled
\* and the flag set by an earlier miss is still true.
C12_Witness ==
    /\ last.hit /\ ~last.done
    /\ missed
    /\ miss_this_round

\* C13: when the session loop ends with a render error or an input-read
\* error, the exit flag has been set.
C13_FatalErrorSetsExit ==
    pc = "exit_err_run" => exit

\* C14: spans holds at most one span, of kind HIT, and a hit that does not
\* complete the round and follows another one appends its character to the
\* text of that span.
C14_HitsCoalesced ==
    [][ /\ Len(spans') <= 1
        /\ \A i \in 1..Len(spans') : spans'[i].span_type = "HIT"
        /\ \A c \in KeyChars :
              (CharStep(c) /\ Len(remainder) >= 2 /\ remainder[1] = c
                  /\ spans # <<>>) =>
                  spans' = << TextSpan_hit(spans[1].content \o <<c>>) >> ]_vars

\* C14 witness: "a" then "b" typed on a remainder of three characters.
C14_Witness ==
    /\ last.hit /\ ~last.done
    /\ spans = << TextSpan_hit(<<"a", "b">>) >>
    /\ Len(remainder) = 1

\* the step handles an input that is neither a pressed character key nor a
\* pressed Escape: another key code, a key event of kind Release or Repeat,
\* an event that is no key event
IgnoredStep ==
    \/ /\ IsKeyCall(last'.op, last'.ev)
       /\ last'.ev.code \notin {"Char", "Esc"}
    \/ /\ last'.op = "handle_events"
       /\ last'.ev.type # "Err"
       /\ ~IsKeyCall(last'.op, last'.ev)

\* C15: an input event that is neither a pressed character key nor a pressed
\* Escape leaves remainder, spans, miss_this_round, wins, fails and exit
\* unchanged.
C15_OtherEventsIgnored ==
    [][ IgnoredStep => UNCHANGED app ]_vars

\* C15 witness: the release of the key of the leading character was read in
\* the session loop, and the round is where it was.
C15_Witness ==
    /\ last.op = "handle_events" /\ pc = "loop"
    /\ last.ev.type = "Key" /\ last.ev.kind = "Release" /\ last.ev.code = "Char"
    /\ Len(remainder) = 2 /\ remainder[1] = last.ev.ch

\* C16: whatever was missed before, a key event for the leading character is
\* a hit: it removes that character, or completes the round when it was the
\* only one left; a round completes on the hit that follows Len(target) - 1
\* others, the second one for a generated target; and with a player who keeps
\* pressing the pending character every round of the session loop completes,
\* unless the session ends.
C16_MissesNeverBlock ==
    /\ [][ \A c \in KeyChars :
             /\ (CharStep(c) /\ remainder # <<>> /\ remainder[1] = c) =>
                   IF Len(remainder) >= 2
                   THEN remainder' = Tail(remainder)
                   ELSE wins' + fails' = wins + fails + 1
             /\ (CharStep(c) /\ remainder = <<c>>) =>
                   /\ hits = Len(target) - 1
                   /\ last'.op = "handle_events" => hits = 1 ]_vars
    /\ \A n \in 0..(MaxRounds - 1) :
          (pc \in {"loop", "events"} /\ completed = n)
              ~> (completed > n \/ pc \notin {"loop", "events"})

\* C16 witness: a round of the session loop was completed after several
\* misses, and a second round is running.
C16_Witness ==
    /\ last.done /\ last.op = "handle_events"
    /\ completed = 2 /\ fails = 2
    /\ pc = "loop"

\* C17: wins and fails change only in the step that handles the completing
\* key event, and wins + fails is the number of rounds completed so far.
C17_CountersChangeOnlyOnCompletion ==
    [][ /\ (wins' # wins \/ fails' # fails) =>
              \E c \in KeyChars : CharStep(c) /\ remainder = <<c>>
        /\ wins' + fails' = completed' ]_vars

\* C17 witness: after two completed rounds a key was missed, and the
\* counters still add up to two.
C17_Witness ==
    /\ KeyCalled /\ last.ev.code = "Char" /\ ~last.hit
    /\ completed = 2 /\ wins + fails = 2
    /\ miss_this_round

\* C18: exit becomes true only in a step that handles Escape, so no character
\* key and no defensive error path sets it, and at every render remainder has
\* one or two characters.
C18_ExitOnlyThroughEscape ==
    [][ /\ (exit' /\ ~exit) => EscStep
        /\ last'.op = "draw" => Len(remainder) \in {1, 2} ]_vars

\* C18 witness: a frame was rendered in the middle of a round, after a round
\* was completed, and the session goes on.
C18_Witness ==
    /\ last.op = "draw" /\ pc = "events"
    /\ Len(remainder) = 1 /\ spans # <<>>
    /\ completed >= 1
    /\ ~exit

\* the symbols of a table
Symbols(table) == { table[i] : i \in 1..Len(table) }

\* C19: in whatever state the program is, its tables DIGITS, ALPHABET and
\* SPECIALS hold 10, 26 and 31 distinct symbols and are pairwise disjoint.
C19_TablesDistinctDisjoint ==
    /\ pc \in STRING
    /\ Cardinality(Symbols(DIGITS)) = 10
    /\ Cardinality(Symbols(ALPHABET)) = 26
    /\ Cardinality(Symbols(SPECIALS)) = 31
    /\ Symbols(DIGITS) \cap Symbols(ALPHABET) = {}
    /\ Symbols(DIGITS) \cap Symbols(SPECIALS) = {}
    /\ Symbols(ALPHABET) \cap Symbols(SPECIALS) = {}

====
